---- MODULE Spec2Model ----
(***************************************************************************)
(* Conversation-state and notification-resolution layer of mydealz_bot.    *)
(* Two chat-framework integrations share one notification store:           *)
(*   legacy  : src/chat/methods.py      (class Methods, user_data dict)    *)
(*   aiogram : src/telegram/handlers.py (class Handlers, FSMContext)       *)
(* One deployment runs one integration; Init chooses which.                *)
(***************************************************************************)
EXTENDS Integers, Sequences, FiniteSets, TLC

\* ---------------------------------------------------------------- bounds
MaxId == 2
MaxEvents == 3

\* ---------------------------------------------------------------- inputs
UserIds == {1, 2}
Profiles == {"p", "q"}
NotificationIds == 1..MaxId
QueryTexts == {"tv", "ps", "tv!"}
InvalidQueryTexts == {"tv!"}
REMOVE == <<"/", "r", "e", "m", "o", "v", "e">>
PriceTexts ==
    { <<"1", "2", ",", "5", "0">>,
      <<"a", "b", "c">>,
      <<"-", "5">>,
      REMOVE }

\* ------------------------------------------------- price text conversion
DigitChars == {"0", "1", "2", "3", "4", "5", "6", "7", "8", "9"}

DigitVal(c) ==
    CASE c = "0" -> 0 [] c = "1" -> 1 [] c = "2" -> 2 [] c = "3" -> 3
      [] c = "4" -> 4 [] c = "5" -> 5 [] c = "6" -> 6 [] c = "7" -> 7
      [] c = "8" -> 8 [] c = "9" -> 9

\* str.replace(',', '.')
replace(s, old, new) == [i \in DOMAIN s |-> IF s[i] = old THEN new ELSE s[i]]

RECURSIVE Pow10(_)
Pow10(k) == IF k = 0 THEN 1 ELSE 10 * Pow10(k - 1)

RECURSIVE DigitsVal(_)
DigitsVal(s) ==
    IF s = <<>> THEN 0 ELSE 10 * DigitsVal(SubSeq(s, 1, Len(s) - 1)) + DigitVal(s[Len(s)])

\* float(str) for decimal literals: [sign] digits [ "." digits ], at least
\* one digit.  The value is num / den with den a power of ten; ok = FALSE
\* stands for ValueError.
float(s) ==
    LET neg   == s # <<>> /\ s[1] = "-"
        body  == IF s # <<>> /\ s[1] \in {"-", "+"} THEN Tail(s) ELSE s
        dots  == {i \in DOMAIN body : body[i] = "."}
        chars == {body[i] : i \in DOMAIN body}
        wellformed == /\ Cardinality(dots) <= 1
                      /\ chars \subseteq (DigitChars \cup {"."})
                      /\ chars \cap DigitChars # {}
        dot   == IF dots = {} THEN Len(body) + 1 ELSE CHOOSE i \in dots : TRUE
        ip    == SubSeq(body, 1, dot - 1)
        fp    == SubSeq(body, dot + 1, Len(body))
    IN  IF ~wellformed
        THEN [ok |-> FALSE, neg |-> FALSE, num |-> 0, den |-> 1]
        ELSE [ok |-> TRUE, neg |-> neg,
              num |-> DigitsVal(ip) * Pow10(Len(fp)) + DigitsVal(fp),
              den |-> Pow10(Len(fp))]

\* A variant that rounds the half away from zero.
round_half_up(x) ==
    LET q == x.num \div x.den
        r == x.num % x.den
        m == IF 2 * r >= x.den THEN q + 1 ELSE q
    IN  IF x.neg THEN 0 - m ELSE m

\* Python 3 builtin round(float): nearest integer, the half goes to the
\* even neighbour.
round(x) ==
    LET q == x.num \div x.den
        r == x.num % x.den
        m == IF 2 * r < x.den THEN q
             ELSE IF 2 * r > x.den THEN q + 1
             ELSE IF q % 2 = 0 THEN q ELSE q + 1
    IN  IF x.neg THEN 0 - m ELSE m

\* Variant: "/remove" stands for the text "1".
parse_price_remove_as_one(text) ==
    LET price == IF text = REMOVE THEN <<"1">> ELSE text
    IN  round(float(replace(price, ",", ".")))

\* price text -> stored integer, as in update_min_price / process_edit_min_price
parse_price(text) ==
    LET price == IF text = REMOVE THEN <<"0">> ELSE text
    IN  round(float(replace(price, ",", ".")))

\* Variant: every text that parses as a number is a valid price.
IsValidPrice_any_number(text) ==
    \/ text = REMOVE
    \/ float(replace(text, ",", ".")).ok

\* Dispatcher filter for a price reply (section 4.3 of the specification).
IsValidPrice(text) ==
    \/ text = REMOVE
    \/ LET x == float(replace(text, ",", ".")) IN x.ok /\ round(x) >= 0

\* Dispatcher filter for a query reply.
IsValidQuery(text) == text \notin InvalidQueryTexts

\* -------------------------------------------------------------- records
\* NotificationModel.__init__
NotificationModel ==
    [id |-> 0, user_id |-> 0, query |-> "", min_price |-> 0, max_price |-> 0,
     search_only_hot |-> FALSE, search_mydealz |-> TRUE,
     search_mindstar |-> TRUE, search_preisjaeger |-> TRUE]

\* Conversation states: Idle is ConversationHandler.END / FSM state None.
Idle == "Idle"
ADD_NOTIFICATION == "ADD_NOTIFICATION"
EDIT_QUERY == "EDIT_QUERY"
EDIT_MIN_PRICE == "EDIT_MIN_PRICE"
EDIT_MAX_PRICE == "EDIT_MAX_PRICE"
END_CONVERSATION == Idle
AwaitingStates == {ADD_NOTIFICATION, EDIT_QUERY, EDIT_MIN_PRICE, EDIT_MAX_PRICE}

\* Value of the notification_id variable of a callback: "" when the event
\* carries none, otherwise the decimal text of an id.
CallbackIds == {ToString(n) : n \in NotificationIds}
int(s) == CHOOSE n \in 0..MaxId : ToString(n) = s

\* The step of a user who follows no scripted dialogue.
Unscripted == -1

VARIABLES
    integration,    \* "legacy" or "aiogram"
    notifications,  \* notification table: id -> record
    next_id,        \* next id the store assigns
    users,          \* user table: id -> {} or {profile}
    state,          \* conversation state per user
    user_data,      \* legacy context.user_data per user: set of <<key, value>>
    data,           \* aiogram FSM data per user: set of <<key, value>>
    resolves,       \* resolver calls made by the last handler, in order
    events,         \* number of events handled since the process started
    last,           \* what the last handler was, for whom, and how it ended
    codec,          \* the callback token under study and what was read from it
    turn            \* per user: the step of the scripted dialogue, or Unscripted

vars == <<integration, notifications, next_id, users, state, user_data, data,
          resolves, events, last, codec, turn>>

\* ---------------------------------------------------------- dictionaries
dict_get(d, key) == {p[2] : p \in {q \in d : q[1] = key}}
dict_set(d, key, value) == {q \in d : q[1] # key} \cup {<<key, value>>}

\* ------------------------------------------------- store (section 6)
get_by_id(db, id) == IF id \in DOMAIN db THEN {db[id]} ELSE {}
insert(db, n) == [i \in DOMAIN db \cup {n.id} |-> IF i = n.id THEN n ELSE db[i]]
update(db, id, column, value) ==
    IF id \in DOMAIN db THEN [db EXCEPT ![id] = [@ EXCEPT ![column] = value]] ELSE db
delete_by_id(db, id) == [i \in DOMAIN db \ {id} |-> db[i]]
get_user_by_id(tbl, id) == tbl[id]
upsert_user(tbl, id, profile) == [tbl EXCEPT ![id] = {profile}]

\* ------------------------------------------------------ legacy session
get_user_data(ud, key) == dict_get(ud, key)
set_user_data(ud, key, value) == dict_set(ud, key, value)
\* Variant: the test of clear_user_data is inverted, a non-empty dict stays.
clear_user_data_inverted(ud) == IF ud = {} THEN {} ELSE ud
clear_user_data(ud) == IF ud # {} THEN {} ELSE ud

\* Methods.get_callback_variable restricted to notification_id: the value
\* already cut out of the token ("" when absent).
NOTIFICATION == "notification"

\* Variant: the session's cached record wins over the explicit id.
Methods_get_notification_session_first(db, ud, notification_id) ==
    LET byId == IF notification_id # "" THEN get_by_id(db, int(notification_id)) ELSE {}
        cached == get_user_data(ud, NOTIFICATION)
    IN  IF cached # {}
        THEN [notification |-> cached, user_data |-> ud]
        ELSE IF byId # {}
             THEN [notification |-> byId,
                   user_data |-> set_user_data(ud, NOTIFICATION, CHOOSE n \in byId : TRUE)]
             ELSE [notification |-> {}, user_data |-> ud]

\* Variant: no fall back to the session.
Methods_get_notification_no_fallback(db, ud, notification_id) ==
    LET byId == IF notification_id # "" THEN get_by_id(db, int(notification_id)) ELSE {}
    IN  IF byId # {}
        THEN [notification |-> byId,
              user_data |-> set_user_data(ud, NOTIFICATION, CHOOSE n \in byId : TRUE)]
        ELSE [notification |-> {}, user_data |-> ud]

\* Variant: without a usable id the most recently stored notification is
\* taken instead of the one in the user's session.
Methods_get_notification_latest(db, ud, notification_id) ==
    LET byId == IF notification_id # "" THEN get_by_id(db, int(notification_id)) ELSE {}
        latest == {db[i] : i \in {j \in DOMAIN db : \A k \in DOMAIN db : k <= j}}
    IN  IF byId # {}
        THEN [notification |-> byId,
              user_data |-> set_user_data(ud, NOTIFICATION, CHOOSE n \in byId : TRUE)]
        ELSE [notification |-> latest, user_data |-> ud]

\* Methods.get_notification: the record returned (a set, empty when
\* NotificationNotFoundError is raised) and user_data afterwards.
Methods_get_notification(db, ud, notification_id) ==
    LET byId == IF notification_id # "" THEN get_by_id(db, int(notification_id)) ELSE {}
    IN  IF byId # {}
        THEN [notification |-> byId,
              user_data |-> set_user_data(ud, NOTIFICATION, CHOOSE n \in byId : TRUE)]
        ELSE [notification |-> get_user_data(ud, NOTIFICATION), user_data |-> ud]

\* The id a session refers to (0 when it refers to none).
PinnedLegacy(ud) ==
    LET c == get_user_data(ud, NOTIFICATION)
    IN  IF c = {} THEN 0 ELSE (CHOOSE n \in c : TRUE).id

\* Record of one resolver call.
Resolve(u, cb, pinned, db, result) ==
    [user |-> u, explicit |-> cb, pinned |-> pinned, store |-> db,
     notification |-> result]

\* Record of one handled event: the handler, the user, the event's inputs
\* (callback notification id, query text, price text), the conversation
\* state the event arrived in, the reply and the error raised, if any;
\* writes is the number of write statements the handler sent to the store,
\* again tells that the event before it was the same action of the same
\* user on the same callback id.
NoHandler ==
    [handler |-> "none", user |-> 0, cb |-> "", query |-> "", price |-> <<>>,
     from |-> Idle, reply |-> "none", error |-> "none", writes |-> 0,
     again |-> FALSE]
Handled(h, u, cb, query, price, reply, error) ==
    [handler |-> h, user |-> u, cb |-> cb, query |-> query, price |-> price,
     from |-> state[u], reply |-> reply, error |-> error, writes |-> 0,
     again |-> (last.handler = h /\ last.user = u /\ last.cb = cb)]
Wrote(k, handled) == [handled EXCEPT !.writes = k]

\* ------------------------------------------------------ callback tokens
\* Python str.find(sub, start): the lowest 0-based index, -1 when absent.
find(str, sub, start) ==
    LET hits == {i \in start..(Len(str) - Len(sub)) : SubSeq(str, i + 1, i + Len(sub)) = sub}
    IN  IF hits = {} THEN -1 ELSE CHOOSE i \in hits : \A j \in hits : i <= j

\* Python str[start:end]: a negative index counts from the end, both are
\* clamped to the string.
slice(str, start, end) ==
    LET norm(i) == IF i < 0 THEN (IF Len(str) + i < 0 THEN 0 ELSE Len(str) + i)
                   ELSE (IF i > Len(str) THEN Len(str) ELSE i)
    IN  IF norm(start) >= norm(end) THEN <<>> ELSE SubSeq(str, norm(start) + 1, norm(end))

\* src.chat.constants.VARIABLE_PATTERN: the pair delimiter, the name, the
\* name/value delimiter, the value.
VARIABLE_PATTERN(variable, value) == <<"!">> \o variable \o <<"=">> \o value
Delimiters == {"!", "="}

\* Variable names and the texts used as actions and values.
VarNotificationId == <<"i", "d">>
VarQuery == <<"q">>
VarD == <<"d">>
VariableNames == {VarNotificationId, VarQuery, VarD}
ActionTexts == {<<"s", "h", "o", "w">>, <<"d", "e", "l">>}
ValuesOf(name) ==
    CASE name = VarNotificationId -> {<<>>} \cup {<<c>> : c \in {"1", "2"}}
      [] name = VarQuery -> {<<>>, <<"t", "v">>, <<"2", "!">>, <<"=", "d">>}
      [] name = VarD -> {<<"7">>}
VariableMaps ==
    UNION {{m \in [D -> UNION {ValuesOf(n) : n \in VariableNames}] :
                \A n \in D : m[n] \in ValuesOf(n)} : D \in SUBSET VariableNames}

\* The keyboards write a token as the action followed by one pattern per
\* variable.
RECURSIVE encode_pairs(_, _)
encode_pairs(names, variables) ==
    IF names = {} THEN <<>>
    ELSE LET n == CHOOSE x \in names : \A y \in names : Len(x) >= Len(y)
         IN  VARIABLE_PATTERN(n, variables[n]) \o encode_pairs(names \ {n}, variables)
encode(action, variables) == action \o encode_pairs(DOMAIN variables, variables)

TokenSafe(action, variables) ==
    LET chars(t) == {t[i] : i \in DOMAIN t}
    IN  /\ chars(action) \cap Delimiters = {}
        /\ \A n \in DOMAIN variables :
              (chars(n) \cup chars(variables[n])) \cap Delimiters = {}

\* The action of a token: the text before the first pair.
decode_action(token) ==
    slice(token, 0, IF find(token, <<"!">>, 0) # -1 THEN find(token, <<"!">>, 0) ELSE Len(token))

\* Variant: the end of the value is find('!') also when that is -1.
get_callback_variable_no_end_fallback(event, variable) ==
    LET variable_pattern == VARIABLE_PATTERN(variable, <<>>)
        cb_data == event.data
        start == find(cb_data, variable_pattern, 0)
        begin == start + Len(variable_pattern)
        end == find(cb_data, <<"!">>, begin)
    IN  IF ~event.callback_query \/ event.data = <<>> THEN <<>>
        ELSE IF start = -1 THEN <<>>
        ELSE slice(cb_data, begin, end)

\* Variant: a pattern that is not found is not checked for.
get_callback_variable_unchecked(event, variable) ==
    LET variable_pattern == VARIABLE_PATTERN(variable, <<>>)
        cb_data == event.data
        start == find(cb_data, variable_pattern, 0)
        begin == start + Len(variable_pattern)
        end == IF find(cb_data, <<"!">>, begin) # -1
               THEN find(cb_data, <<"!">>, begin) ELSE Len(cb_data)
    IN  IF ~event.callback_query \/ event.data = <<>> THEN <<>>
        ELSE slice(cb_data, begin, end)

\* Methods.get_callback_variable; event is the update: whether it has a
\* callback query, and the query's data.
get_callback_variable(event, variable) ==
    LET variable_pattern == VARIABLE_PATTERN(variable, <<>>)
        cb_data == event.data
        start == find(cb_data, variable_pattern, 0)
        begin == start + Len(variable_pattern)
        end == IF find(cb_data, <<"!">>, begin) # -1
               THEN find(cb_data, <<"!">>, begin) ELSE Len(cb_data)
    IN  IF ~event.callback_query \/ event.data = <<>> THEN <<>>
        ELSE IF start = -1 THEN <<>>
        ELSE slice(cb_data, begin, end)

\* The text of a notification id as the handlers of this module take it.
IdText(value) == IF value = <<>> THEN "" ELSE ToString(DigitsVal(value))

Undecoded == [action |-> <<>>, variables |-> [n \in VariableNames |-> <<>>]]
NoToken ==
    [pc |-> "none", action |-> <<>>, variables |-> <<>>,
     update |-> [callback_query |-> FALSE, data |-> <<>>], decoded |-> Undecoded]

\* The tables are persistent and the sessions are not: the process starts
\* with whatever earlier runs left in the store (here nothing, or MaxId
\* notifications as the add dialogue creates them, owned by the two users
\* in turn, the first one with both prices edited to 12) and with every
\* session empty.
Owner(i) == IF i % 2 = 1 THEN 1 ELSE 2
PersistedPrice(i) == IF i = 1 THEN 12 ELSE 0
PersistedStores ==
    {[i \in 1..k |-> [NotificationModel EXCEPT !.user_id = Owner(i), !.query = "tv",
                                               !.min_price = PersistedPrice(i),
                                               !.max_price = PersistedPrice(i)]]
     : k \in {0, MaxId}}

Init ==
    /\ integration \in {"legacy", "aiogram"}
    /\ \E db \in PersistedStores :
          /\ notifications = [i \in DOMAIN db |-> [db[i] EXCEPT !.id = i]]
          /\ next_id = Len(db) + 1
          /\ users = [u \in UserIds |->
                        IF \E i \in DOMAIN db : db[i].user_id = u THEN {"p"} ELSE {}]
    /\ events = 0
    /\ state = [u \in UserIds |-> Idle]
    /\ user_data = [u \in UserIds |-> {}]
    /\ data = [u \in UserIds |-> {}]
    /\ resolves = <<>>
    /\ last = NoHandler
    /\ codec = NoToken
    /\ turn = [u \in UserIds |-> Unscripted]

\* ======================================================================
\* Legacy integration: src/chat/methods.py
\* ======================================================================
\* An event of user u is handled and counted.  A user who follows a
\* scripted dialogue moves on to its next step; the events of the other
\* users are bounded by MaxEvents.
Handling(u) ==
    /\ events' = events + 1
    /\ IF turn[u] = Unscripted
       THEN events < MaxEvents /\ UNCHANGED turn
       ELSE turn' = [turn EXCEPT ![u] = @ + 1]
    /\ UNCHANGED codec

\* An event of user u reaches the legacy handlers.
Legacy(u) ==
    /\ integration = "legacy" /\ u \in UserIds
    /\ Handling(u)

\* A handler that raised NotificationNotFoundError: Methods.error_handler
\* answers through notification_not_found; the handler returned no state,
\* so the conversation stays where it was.
Methods_error_handler(h, u, cb, query, price) ==
    /\ last' = Handled(h, u, cb, query, price, "notification_not_found", "NotificationNotFoundError")
    /\ UNCHANGED <<integration, notifications, next_id, users, state, user_data, data>>

Methods_start(u, profile) ==
    /\ Legacy(u)
    /\ LET user == get_user_by_id(users, u)
           \* dataclass equality of two UserModel objects: the class declares
           \* no dataclass fields, so every two instances compare equal
           differs == FALSE
       IN  users' = IF user = {} \/ differs THEN upsert_user(users, u, profile) ELSE users
    /\ user_data' = [user_data EXCEPT ![u] = clear_user_data(@)]
    /\ state' = [state EXCEPT ![u] = END_CONVERSATION]
    /\ resolves' = <<>>
    /\ last' = Wrote(IF get_user_by_id(users, u) = {} THEN 1 ELSE 0, Handled("start", u, "", "", <<>>, "start", "none"))
    /\ UNCHANGED <<integration, notifications, next_id, data>>

Methods_home(u) ==
    /\ Legacy(u)
    /\ user_data' = [user_data EXCEPT ![u] = clear_user_data(@)]
    /\ state' = [state EXCEPT ![u] = END_CONVERSATION]
    /\ resolves' = <<>>
    /\ last' = Handled("home", u, "", "", <<>>, "start", "none")
    /\ UNCHANGED <<integration, notifications, next_id, users, data>>

Methods_add_notification_trigger(u) ==
    /\ Legacy(u)
    /\ state' = [state EXCEPT ![u] = ADD_NOTIFICATION]
    /\ resolves' = <<>>
    /\ last' = Handled("add_notification_trigger", u, "", "", <<>>, "query_instructions", "none")
    /\ UNCHANGED <<integration, notifications, next_id, users, user_data, data>>

\* text is the message text ("" for a callback event), variable the value of
\* the add_notification callback variable ("" when absent).
Methods_add_notification(u, text, variable) ==
    /\ Legacy(u)
    /\ next_id <= MaxId
    /\ \/ state[u] = ADD_NOTIFICATION /\ text \in QueryTexts /\ IsValidQuery(text) /\ variable = ""
       \/ state[u] = Idle /\ text = "" /\ variable \in {"", "tv"}
    /\ LET query == IF text # "" THEN text ELSE variable
           notification == [NotificationModel EXCEPT !.user_id = u, !.query = query,
                                                     !.id = next_id]
       IN  /\ notifications' = insert(notifications, notification)
           /\ user_data' = [user_data EXCEPT ![u] = set_user_data(@, NOTIFICATION, notification)]
    /\ next_id' = next_id + 1
    /\ state' = [state EXCEPT ![u] = END_CONVERSATION]
    /\ resolves' = <<>>
    /\ last' = Wrote(1, Handled("add_notification", u, "", IF text # "" THEN text ELSE variable, <<>>, "notification_added", "none"))
    /\ UNCHANGED <<integration, users, data>>

Methods_add_notification_failed(u, text) ==
    /\ Legacy(u)
    /\ state[u] = ADD_NOTIFICATION /\ text \in QueryTexts /\ ~IsValidQuery(text)
    /\ state' = [state EXCEPT ![u] = ADD_NOTIFICATION]
    /\ resolves' = <<>>
    /\ last' = Handled("add_notification_failed", u, "", text, <<>>, "invalid_query", "none")
    /\ UNCHANGED <<integration, notifications, next_id, users, user_data, data>>

Methods_show_notification(u, cb) ==
    /\ Legacy(u)
    /\ LET r == Methods_get_notification(notifications, user_data[u], cb)
       IN  /\ resolves' = <<Resolve(u, cb, PinnedLegacy(user_data[u]), notifications, r.notification)>>
           /\ IF r.notification = {}
              THEN Methods_error_handler("show_notification", u, cb, "", <<>>)
              ELSE /\ user_data' = [user_data EXCEPT ![u] = r.user_data]
                   /\ state' = [state EXCEPT ![u] = END_CONVERSATION]
                   /\ last' = Handled("show_notification", u, cb, "", <<>>, "notification_overview", "none")
                   /\ UNCHANGED <<integration, notifications, next_id, users, data>>

\* The three edit triggers only prompt and name the next state.
Methods_update_trigger(u, cb, h, next, reply) ==
    /\ Legacy(u)
    /\ state' = [state EXCEPT ![u] = next]
    /\ resolves' = <<>>
    /\ last' = Handled(h, u, cb, "", <<>>, reply, "none")
    /\ UNCHANGED <<integration, notifications, next_id, users, user_data, data>>

Methods_update_query_trigger(u, cb) ==
    Methods_update_trigger(u, cb, "update_query_trigger", EDIT_QUERY, "query_instructions")

Methods_update_min_price_trigger(u, cb) ==
    Methods_update_trigger(u, cb, "update_min_price_trigger", EDIT_MIN_PRICE, "price_instructions")

Methods_update_max_price_trigger(u, cb) ==
    Methods_update_trigger(u, cb, "update_max_price_trigger", EDIT_MAX_PRICE, "price_instructions")

\* Body shared by update_query, update_min_price and update_max_price: the
\* reply is a text message, so the callback variable is "".  The record the
\* resolver returns is the object kept in user_data, so the assignment to
\* its field shows in the session as well.
Methods_update_field(u, h, column, value, query, price) ==
    LET r == Methods_get_notification(notifications, user_data[u], "")
    IN  /\ resolves' = <<Resolve(u, "", PinnedLegacy(user_data[u]), notifications, r.notification)>>
        /\ IF r.notification = {}
           THEN Methods_error_handler(h, u, "", query, price)
           ELSE LET n == CHOOSE x \in r.notification : TRUE
                    m == [n EXCEPT ![column] = value]
                IN  /\ notifications' = update(notifications, n.id, column, value)
                    /\ user_data' = [user_data EXCEPT ![u] = set_user_data(r.user_data, NOTIFICATION, m)]
                    /\ state' = [state EXCEPT ![u] = END_CONVERSATION]
                    /\ last' = Wrote(1, Handled(h, u, "", query, price, "query_updated", "none"))
                    /\ UNCHANGED <<integration, next_id, users, data>>

Methods_update_query(u, text) ==
    /\ Legacy(u)
    /\ state[u] = EDIT_QUERY /\ text \in QueryTexts /\ IsValidQuery(text)
    /\ Methods_update_field(u, "update_query", "query", text, text, <<>>)

Methods_update_query_failed(u, text) ==
    /\ Legacy(u)
    /\ state[u] = EDIT_QUERY /\ text \in QueryTexts /\ ~IsValidQuery(text)
    /\ state' = [state EXCEPT ![u] = EDIT_QUERY]
    /\ resolves' = <<>>
    /\ last' = Handled("update_query_failed", u, "", text, <<>>, "invalid_query", "none")
    /\ UNCHANGED <<integration, notifications, next_id, users, user_data, data>>

Methods_update_min_price(u, text) ==
    /\ Legacy(u)
    /\ state[u] = EDIT_MIN_PRICE /\ text \in PriceTexts /\ IsValidPrice(text)
    /\ Methods_update_field(u, "update_min_price", "min_price", parse_price(text), "", text)

\* Variant: the handler ends the conversation.
Methods_update_min_price_failed_ends(u, text) ==
    /\ Legacy(u)
    /\ state[u] = EDIT_MIN_PRICE /\ text \in PriceTexts /\ ~IsValidPrice(text)
    /\ state' = [state EXCEPT ![u] = END_CONVERSATION]
    /\ resolves' = <<>>
    /\ last' = Handled("update_min_price_failed", u, "", "", text, "invalid_price", "none")
    /\ UNCHANGED <<integration, notifications, next_id, users, user_data, data>>

Methods_update_min_price_failed(u, text) ==
    /\ Legacy(u)
    /\ state[u] = EDIT_MIN_PRICE /\ text \in PriceTexts /\ ~IsValidPrice(text)
    /\ state' = [state EXCEPT ![u] = EDIT_MIN_PRICE]
    /\ resolves' = <<>>
    /\ last' = Handled("update_min_price_failed", u, "", "", text, "invalid_price", "none")
    /\ UNCHANGED <<integration, notifications, next_id, users, user_data, data>>

Methods_update_max_price(u, text) ==
    /\ Legacy(u)
    /\ state[u] = EDIT_MAX_PRICE /\ text \in PriceTexts /\ IsValidPrice(text)
    /\ Methods_update_field(u, "update_max_price", "max_price", parse_price(text), "", text)

Methods_update_max_price_failed(u, text) ==
    /\ Legacy(u)
    /\ state[u] = EDIT_MAX_PRICE /\ text \in PriceTexts /\ ~IsValidPrice(text)
    /\ state' = [state EXCEPT ![u] = EDIT_MAX_PRICE]
    /\ resolves' = <<>>
    /\ last' = Handled("update_max_price_failed", u, "", "", text, "invalid_price", "none")
    /\ UNCHANGED <<integration, notifications, next_id, users, user_data, data>>

\* toggle_only_hot resolves, flips and writes the flag, then calls
\* show_notification(overwrite=True), which resolves again; the value
\* show_notification returns is dropped, so the state stays.
Methods_toggle_only_hot(u, cb) ==
    /\ Legacy(u)
    /\ LET r1 == Methods_get_notification(notifications, user_data[u], cb)
           o1 == Resolve(u, cb, PinnedLegacy(user_data[u]), notifications, r1.notification)
       IN  IF r1.notification = {}
           THEN /\ resolves' = <<o1>>
                /\ Methods_error_handler("toggle_only_hot", u, cb, "", <<>>)
           ELSE LET n   == CHOOSE x \in r1.notification : TRUE
                    m   == [n EXCEPT !.search_only_hot = ~n.search_only_hot]
                    db  == update(notifications, n.id, "search_only_hot", m.search_only_hot)
                    ud  == set_user_data(r1.user_data, NOTIFICATION, m)
                    r2  == Methods_get_notification(db, ud, cb)
                    o2  == Resolve(u, cb, PinnedLegacy(ud), db, r2.notification)
                IN  /\ resolves' = <<o1, o2>>
                    /\ notifications' = db
                    /\ user_data' = [user_data EXCEPT ![u] = r2.user_data]
                    /\ last' = Wrote(1, Handled("toggle_only_hot", u, cb, "", <<>>, "notification_overview", "none"))
                    /\ UNCHANGED <<integration, next_id, users, state, data>>

\* delete_notification ends in home(), whose return value is dropped.
Methods_delete_notification(u, cb) ==
    /\ Legacy(u)
    /\ LET r == Methods_get_notification(notifications, user_data[u], cb)
       IN  /\ resolves' = <<Resolve(u, cb, PinnedLegacy(user_data[u]), notifications, r.notification)>>
           /\ IF r.notification = {}
              THEN Methods_error_handler("delete_notification", u, cb, "", <<>>)
              ELSE LET n == CHOOSE x \in r.notification : TRUE
                   IN  /\ notifications' = delete_by_id(notifications, n.id)
                       /\ user_data' = [user_data EXCEPT ![u] = clear_user_data(r.user_data)]
                       /\ last' = Wrote(1, Handled("delete_notification", u, cb, "", <<>>, "start", "none"))
                       /\ UNCHANGED <<integration, next_id, users, state, data>>

\* ======================================================================
\* aiogram integration: src/telegram/handlers.py
\* ======================================================================
\* An event of user u reaches the aiogram handlers.
Aiogram(u) ==
    /\ integration = "aiogram" /\ u \in UserIds
    /\ Handling(u)

NOTIFICATION_ID == "notification_id"

\* Variant: the state is reset and the data is kept.
finish_state_keeps_data(u, st, dt) ==
    IF st[u] # Idle
    THEN [state |-> [st EXCEPT ![u] = Idle], data |-> dt]
    ELSE [state |-> st, data |-> dt]

\* FSMContext.finish(): resets the state and drops the data.
\* Handlers.__finish_state: finish only when a state is set.
finish_state(u, st, dt) ==
    IF st[u] # Idle
    THEN [state |-> [st EXCEPT ![u] = Idle], data |-> [dt EXCEPT ![u] = {}]]
    ELSE [state |-> st, data |-> dt]

\* Handlers.__store_notification_id
store_notification_id(dt, cb) == dict_set(dt, NOTIFICATION_ID, cb)

\* Handlers.__get_notification: source is the FSM data or the callback
\* data; a missing key reads as 0.  Empty result = NotificationNotFoundError.
Handlers_get_notification(db, source) ==
    LET v == dict_get(source, NOTIFICATION_ID)
        notification_id == IF v = {} THEN 0 ELSE int(CHOOSE x \in v : TRUE)
    IN  get_by_id(db, notification_id)

PinnedAiogram(dt) ==
    LET v == dict_get(dt, NOTIFICATION_ID)
    IN  IF v = {} THEN 0 ELSE int(CHOOSE x \in v : TRUE)

callback_data(cb) == {<<NOTIFICATION_ID, cb>>}

\* Handlers.notification_not_found, the errors handler for
\* NotificationNotFoundError: it replies and touches neither state nor data.
Handlers_notification_not_found(h, u, cb, query, price) ==
    /\ last' = Handled(h, u, cb, query, price, "notification_not_found", "NotificationNotFoundError")
    /\ UNCHANGED <<integration, notifications, next_id, users, state, user_data, data>>

\* Handlers.start: the user table after it.
Handlers_start_users(tbl, u, profile) ==
    IF get_user_by_id(tbl, u) = {} THEN upsert_user(tbl, u, profile) ELSE tbl

Handlers_start(u, profile) ==
    /\ Aiogram(u)
    /\ state[u] = Idle
    /\ users' = Handlers_start_users(users, u, profile)
    /\ resolves' = <<>>
    /\ last' = Wrote(IF get_user_by_id(users, u) = {} THEN 1 ELSE 0, Handled("start", u, "", "", <<>>, "start", "none"))
    /\ UNCHANGED <<integration, notifications, next_id, state, user_data, data>>

Handlers_start_over(u, profile) ==
    /\ Aiogram(u)
    /\ LET f == finish_state(u, state, data)
       IN  state' = f.state /\ data' = f.data
    /\ users' = Handlers_start_users(users, u, profile)
    /\ resolves' = <<>>
    /\ last' = Wrote(IF get_user_by_id(users, u) = {} THEN 1 ELSE 0, Handled("start_over", u, "", "", <<>>, "start", "none"))
    /\ UNCHANGED <<integration, notifications, next_id, user_data>>

Handlers_add_notification(u) ==
    /\ Aiogram(u)
    /\ state' = [state EXCEPT ![u] = ADD_NOTIFICATION]
    /\ resolves' = <<>>
    /\ last' = Handled("add_notification", u, "", "", <<>>, "query_instructions", "none")
    /\ UNCHANGED <<integration, notifications, next_id, users, user_data, data>>

\* Handlers.__save_notification
\* Variant: the new record is saved without its owner.
save_notification_unowned(db, id, query, chat_id) ==
    insert(db, [NotificationModel EXCEPT !.query = query, !.id = id])

save_notification(db, id, query, chat_id) ==
    insert(db, [NotificationModel EXCEPT !.user_id = chat_id, !.query = query, !.id = id])

Handlers_process_add_notification(u, text) ==
    /\ Aiogram(u)
    /\ next_id <= MaxId
    /\ state[u] = ADD_NOTIFICATION /\ text \in QueryTexts /\ IsValidQuery(text)
    /\ notifications' = save_notification(notifications, next_id, text, u)
    /\ next_id' = next_id + 1
    /\ state' = [state EXCEPT ![u] = Idle]
    /\ data' = [data EXCEPT ![u] = {}]
    /\ resolves' = <<>>
    /\ last' = Wrote(1, Handled("process_add_notification", u, "", text, <<>>, "notification_added", "none"))
    /\ UNCHANGED <<integration, users, user_data>>

Handlers_add_notification_inconclusive(u, text) ==
    /\ Aiogram(u)
    /\ state[u] = Idle /\ text \in QueryTexts
    /\ resolves' = <<>>
    /\ last' = Handled("add_notification_inconclusive", u, "", text, <<>>, "add_notification_inconclusive", "none")
    /\ UNCHANGED <<integration, notifications, next_id, users, state, user_data, data>>

\* query is callback_data.get('query', '').
Handlers_process_add_notification_inconclusive(u, query) ==
    /\ Aiogram(u)
    /\ next_id <= MaxId
    /\ state[u] = Idle /\ query \in {"", "tv"}
    /\ notifications' = save_notification(notifications, next_id, query, u)
    /\ next_id' = next_id + 1
    /\ resolves' = <<>>
    /\ last' = Wrote(1, Handled("process_add_notification_inconclusive", u, "", query, <<>>, "notification_added", "none"))
    /\ UNCHANGED <<integration, users, state, user_data, data>>

Handlers_show_notification(u, cb) ==
    /\ Aiogram(u)
    /\ LET r == Handlers_get_notification(notifications, callback_data(cb))
       IN  /\ resolves' = <<Resolve(u, cb, PinnedAiogram(data[u]), notifications, r)>>
           /\ IF r = {}
              THEN Handlers_notification_not_found("show_notification", u, cb, "", <<>>)
              ELSE /\ last' = Handled("show_notification", u, cb, "", <<>>, "notification_overview", "none")
                   /\ UNCHANGED <<integration, notifications, next_id, users, state, user_data, data>>

\* edit_query, edit_min_price, edit_max_price: pin the id, set the state.
Handlers_edit(u, cb, h, next, reply) ==
    /\ Aiogram(u)
    /\ data' = [data EXCEPT ![u] = store_notification_id(@, cb)]
    /\ state' = [state EXCEPT ![u] = next]
    /\ resolves' = <<>>
    /\ last' = Handled(h, u, cb, "", <<>>, reply, "none")
    /\ UNCHANGED <<integration, notifications, next_id, users, user_data>>

Handlers_edit_query(u, cb) ==
    Handlers_edit(u, cb, "edit_query", EDIT_QUERY, "query_instructions")

Handlers_edit_min_price(u, cb) ==
    Handlers_edit(u, cb, "edit_min_price", EDIT_MIN_PRICE, "price_instructions")

Handlers_edit_max_price(u, cb) ==
    Handlers_edit(u, cb, "edit_max_price", EDIT_MAX_PRICE, "price_instructions")

\* process_edit_query: resolves through the state, writes the record back;
\* it has no state.finish().
Handlers_process_edit_query(u, text) ==
    /\ Aiogram(u)
    /\ state[u] = EDIT_QUERY /\ text \in QueryTexts /\ IsValidQuery(text)
    /\ LET r == Handlers_get_notification(notifications, data[u])
       IN  /\ resolves' = <<Resolve(u, "", PinnedAiogram(data[u]), notifications, r)>>
           /\ IF r = {}
              THEN Handlers_notification_not_found("process_edit_query", u, "", text, <<>>)
              ELSE LET n == CHOOSE x \in r : TRUE
                   IN  /\ notifications' = insert(notifications, [n EXCEPT !.query = text])
                       /\ last' = Wrote(1, Handled("process_edit_query", u, "", text, <<>>, "query_updated", "none"))
                       /\ UNCHANGED <<integration, next_id, users, state, user_data, data>>

\* Variant: the price is written to both price columns.
Handlers_process_edit_price_both(u, h, column, text) ==
    LET r == Handlers_get_notification(notifications, data[u])
    IN  /\ resolves' = <<Resolve(u, "", PinnedAiogram(data[u]), notifications, r)>>
        /\ IF r = {}
           THEN Handlers_notification_not_found(h, u, "", "", text)
           ELSE LET n == CHOOSE x \in r : TRUE
                IN  /\ notifications' = insert(notifications, [n EXCEPT !.min_price = parse_price(text),
                                                                        !.max_price = parse_price(text)])
                    /\ state' = [state EXCEPT ![u] = Idle]
                    /\ data' = [data EXCEPT ![u] = {}]
                    /\ last' = Wrote(1, Handled(h, u, "", "", text, "query_updated", "none"))
                    /\ UNCHANGED <<integration, next_id, users, user_data>>

\* Body shared by process_edit_min_price and process_edit_max_price.
Handlers_process_edit_price(u, h, column, text) ==
    LET r == Handlers_get_notification(notifications, data[u])
    IN  /\ resolves' = <<Resolve(u, "", PinnedAiogram(data[u]), notifications, r)>>
        /\ IF r = {}
           THEN Handlers_notification_not_found(h, u, "", "", text)
           ELSE LET n == CHOOSE x \in r : TRUE
                IN  /\ notifications' = insert(notifications, [n EXCEPT ![column] = parse_price(text)])
                    /\ state' = [state EXCEPT ![u] = Idle]
                    /\ data' = [data EXCEPT ![u] = {}]
                    /\ last' = Wrote(1, Handled(h, u, "", "", text, "query_updated", "none"))
                    /\ UNCHANGED <<integration, next_id, users, user_data>>

Handlers_process_edit_min_price(u, text) ==
    /\ Aiogram(u)
    /\ state[u] = EDIT_MIN_PRICE /\ text \in PriceTexts /\ IsValidPrice(text)
    /\ Handlers_process_edit_price(u, "process_edit_min_price", "min_price", text)

Handlers_process_edit_max_price(u, text) ==
    /\ Aiogram(u)
    /\ state[u] = EDIT_MAX_PRICE /\ text \in PriceTexts /\ IsValidPrice(text)
    /\ Handlers_process_edit_price(u, "process_edit_max_price", "max_price", text)

\* Variant: the flag is switched on instead of flipped.
Handlers_toggle_only_hot_sets(u, cb) ==
    /\ Aiogram(u)
    /\ LET r1 == Handlers_get_notification(notifications, callback_data(cb))
           o1 == Resolve(u, cb, PinnedAiogram(data[u]), notifications, r1)
       IN  IF r1 = {}
           THEN /\ resolves' = <<o1>>
                /\ Handlers_notification_not_found("toggle_only_hot", u, cb, "", <<>>)
           ELSE LET n  == CHOOSE x \in r1 : TRUE
                    db == insert(notifications, [n EXCEPT !.search_only_hot = TRUE])
                    r2 == Handlers_get_notification(db, callback_data(cb))
                IN  /\ resolves' = <<o1, Resolve(u, cb, PinnedAiogram(data[u]), db, r2)>>
                    /\ notifications' = db
                    /\ last' = Wrote(1, Handled("toggle_only_hot", u, cb, "", <<>>, "notification_overview", "none"))
                    /\ UNCHANGED <<integration, next_id, users, state, user_data, data>>

Handlers_toggle_only_hot(u, cb) ==
    /\ Aiogram(u)
    /\ LET r1 == Handlers_get_notification(notifications, callback_data(cb))
           o1 == Resolve(u, cb, PinnedAiogram(data[u]), notifications, r1)
       IN  IF r1 = {}
           THEN /\ resolves' = <<o1>>
                /\ Handlers_notification_not_found("toggle_only_hot", u, cb, "", <<>>)
           ELSE LET n  == CHOOSE x \in r1 : TRUE
                    db == insert(notifications, [n EXCEPT !.search_only_hot = ~n.search_only_hot])
                    r2 == Handlers_get_notification(db, callback_data(cb))
                IN  /\ resolves' = <<o1, Resolve(u, cb, PinnedAiogram(data[u]), db, r2)>>
                    /\ notifications' = db
                    /\ last' = Wrote(1, Handled("toggle_only_hot", u, cb, "", <<>>, "notification_overview", "none"))
                    /\ UNCHANGED <<integration, next_id, users, state, user_data, data>>

Handlers_delete_notification(u, cb) ==
    /\ Aiogram(u)
    /\ LET r == Handlers_get_notification(notifications, callback_data(cb))
       IN  /\ resolves' = <<Resolve(u, cb, PinnedAiogram(data[u]), notifications, r)>>
           /\ IF r = {}
              THEN Handlers_notification_not_found("delete_notification", u, cb, "", <<>>)
              ELSE LET n == CHOOSE x \in r : TRUE
                   IN  /\ notifications' = delete_by_id(notifications, n.id)
                       /\ last' = Wrote(1, Handled("delete_notification", u, cb, "", <<>>, "notification_deleted", "none"))
                       /\ UNCHANGED <<integration, next_id, users, state, user_data, data>>

\* Variant: NotificationNotFoundError is not caught.
Handlers_cancel_uncaught(u, profile) ==
    /\ Aiogram(u)
    /\ IF state[u] = Idle
       THEN /\ resolves' = <<>>
            /\ last' = Handled("cancel", u, "", "", <<>>, "none", "none")
            /\ UNCHANGED <<integration, notifications, next_id, users, state, user_data, data>>
       ELSE LET r == Handlers_get_notification(notifications, data[u])
                f == finish_state(u, state, data)
            IN  /\ resolves' = <<Resolve(u, "", PinnedAiogram(data[u]), notifications, r)>>
                /\ IF r = {}
                   THEN Handlers_notification_not_found("cancel", u, "", "", <<>>)
                   ELSE /\ state' = f.state
                        /\ data' = f.data
                        /\ last' = Handled("cancel", u, "", "", <<>>, "notification_overview", "none")
                        /\ UNCHANGED <<integration, notifications, next_id, users, user_data>>

\* cancel: nothing without a state; otherwise the overview of the pinned
\* notification, or start_over when it cannot be resolved; then
\* __finish_state.
Handlers_cancel(u, profile) ==
    /\ Aiogram(u)
    /\ IF state[u] = Idle
       THEN /\ resolves' = <<>>
            /\ last' = Handled("cancel", u, "", "", <<>>, "none", "none")
            /\ UNCHANGED <<integration, notifications, next_id, users, state, user_data, data>>
       ELSE LET r == Handlers_get_notification(notifications, data[u])
                f == finish_state(u, state, data)
            IN  /\ resolves' = <<Resolve(u, "", PinnedAiogram(data[u]), notifications, r)>>
                /\ state' = f.state
                /\ data' = f.data
                /\ users' = IF r = {} THEN Handlers_start_users(users, u, profile) ELSE users
                /\ last' = Wrote(IF r = {} /\ get_user_by_id(users, u) = {} THEN 1 ELSE 0,
                                 Handled("cancel", u, "", "", <<>>,
                                         IF r = {} THEN "start" ELSE "notification_overview",
                                         "none"))
                /\ UNCHANGED <<integration, notifications, next_id, user_data>>

Handlers_invalid_query(u, text) ==
    /\ Aiogram(u)
    /\ state[u] \in {ADD_NOTIFICATION, EDIT_QUERY} /\ text \in QueryTexts /\ ~IsValidQuery(text)
    /\ resolves' = <<>>
    /\ last' = Handled("invalid_query", u, "", text, <<>>, "invalid_query", "none")
    /\ UNCHANGED <<integration, notifications, next_id, users, state, user_data, data>>

Handlers_invalid_price(u, text) ==
    /\ Aiogram(u)
    /\ state[u] \in {EDIT_MIN_PRICE, EDIT_MAX_PRICE} /\ text \in PriceTexts /\ ~IsValidPrice(text)
    /\ resolves' = <<>>
    /\ last' = Handled("invalid_price", u, "", "", text, "invalid_price", "none")
    /\ UNCHANGED <<integration, notifications, next_id, users, state, user_data, data>>

\* The notification ids callback events carry: a keyboard holds only ids
\* the store has assigned at some time.
IssuedIds == {cb \in CallbackIds : int(cb) < next_id}

Next ==
    \/ \E u \in UserIds, p \in Profiles : Methods_start(u, p)
    \/ \E u \in UserIds : Methods_home(u)
    \/ \E u \in UserIds : Methods_add_notification_trigger(u)
    \/ \E u \in UserIds, t \in QueryTexts \cup {""}, v \in {"", "tv"} : Methods_add_notification(u, t, v)
    \/ \E u \in UserIds, t \in QueryTexts : Methods_add_notification_failed(u, t)
    \/ \E u \in UserIds, cb \in IssuedIds \cup {""} : Methods_show_notification(u, cb)
    \/ \E u \in UserIds, cb \in IssuedIds : Methods_update_query_trigger(u, cb)
    \/ \E u \in UserIds, cb \in IssuedIds : Methods_update_min_price_trigger(u, cb)
    \/ \E u \in UserIds, cb \in IssuedIds : Methods_update_max_price_trigger(u, cb)
    \/ \E u \in UserIds, t \in QueryTexts : Methods_update_query(u, t)
    \/ \E u \in UserIds, t \in QueryTexts : Methods_update_query_failed(u, t)
    \/ \E u \in UserIds, t \in PriceTexts : Methods_update_min_price(u, t)
    \/ \E u \in UserIds, t \in PriceTexts : Methods_update_min_price_failed(u, t)
    \/ \E u \in UserIds, t \in PriceTexts : Methods_update_max_price(u, t)
    \/ \E u \in UserIds, t \in PriceTexts : Methods_update_max_price_failed(u, t)
    \/ \E u \in UserIds, cb \in IssuedIds \cup {""} : Methods_toggle_only_hot(u, cb)
    \/ \E u \in UserIds, cb \in IssuedIds \cup {""} : Methods_delete_notification(u, cb)
    \/ \E u \in UserIds, p \in Profiles : Handlers_start(u, p)
    \/ \E u \in UserIds, p \in Profiles : Handlers_start_over(u, p)
    \/ \E u \in UserIds : Handlers_add_notification(u)
    \/ \E u \in UserIds, t \in QueryTexts : Handlers_process_add_notification(u, t)
    \/ \E u \in UserIds, t \in QueryTexts : Handlers_add_notification_inconclusive(u, t)
    \/ \E u \in UserIds, q \in {"", "tv"} : Handlers_process_add_notification_inconclusive(u, q)
    \/ \E u \in UserIds, cb \in IssuedIds : Handlers_show_notification(u, cb)
    \/ \E u \in UserIds, cb \in IssuedIds : Handlers_edit_query(u, cb)
    \/ \E u \in UserIds, cb \in IssuedIds : Handlers_edit_min_price(u, cb)
    \/ \E u \in UserIds, cb \in IssuedIds : Handlers_edit_max_price(u, cb)
    \/ \E u \in UserIds, t \in QueryTexts : Handlers_process_edit_query(u, t)
    \/ \E u \in UserIds, t \in PriceTexts : Handlers_process_edit_min_price(u, t)
    \/ \E u \in UserIds, t \in PriceTexts : Handlers_process_edit_max_price(u, t)
    \/ \E u \in UserIds, cb \in IssuedIds : Handlers_toggle_only_hot(u, cb)
    \/ \E u \in UserIds, cb \in IssuedIds : Handlers_delete_notification(u, cb)
    \/ \E u \in UserIds, p \in Profiles : Handlers_cancel(u, p)
    \/ \E u \in UserIds, t \in QueryTexts : Handlers_invalid_query(u, t)
    \/ \E u \in UserIds, t \in PriceTexts : Handlers_invalid_price(u, t)

Spec == Init /\ [][Next]_vars

\* ======================================================================
\* Callback tokens from the keyboard to the resolver (legacy integration)
\* ======================================================================
\* A keyboard button is built for an action and its variables.
Codec_encode(action, variables) ==
    /\ integration = "legacy"
    /\ codec' = [pc |-> "encoded", action |-> action, variables |-> variables,
                 update |-> [callback_query |-> TRUE, data |-> encode(action, variables)],
                 decoded |-> Undecoded]
    /\ UNCHANGED <<integration, notifications, next_id, users, state, user_data, data,
                   resolves, events, last, turn>>

\* A text message: an event without callback data.
Codec_message ==
    /\ integration = "legacy"
    /\ codec' = [pc |-> "encoded", action |-> <<>>, variables |-> <<>>,
                 update |-> [callback_query |-> FALSE, data |-> <<>>],
                 decoded |-> Undecoded]
    /\ UNCHANGED <<integration, notifications, next_id, users, state, user_data, data,
                   resolves, events, last, turn>>

\* The event is read: its action and every variable a handler may ask for.
Codec_decode ==
    /\ codec.pc = "encoded"
    /\ codec' = [codec EXCEPT
                    !.pc = "decoded",
                    !.decoded = [action |-> decode_action(codec.update.data),
                                 variables |-> [n \in VariableNames |->
                                                  get_callback_variable(codec.update, n)]]]
    /\ UNCHANGED <<integration, notifications, next_id, users, state, user_data, data,
                   resolves, events, last, turn>>

\* Methods.get_notification for user u on the event read.
Codec_get_notification(u) ==
    /\ codec.pc = "decoded"
    /\ LET notification_id == codec.decoded.variables[VarNotificationId]
           r == Methods_get_notification(notifications, user_data[u], IdText(notification_id))
       IN  /\ resolves' = <<Resolve(u, IdText(notification_id), PinnedLegacy(user_data[u]),
                                    notifications, r.notification)>>
           /\ user_data' = [user_data EXCEPT ![u] = r.user_data]
    /\ codec' = [codec EXCEPT !.pc = "resolved"]
    /\ UNCHANGED <<integration, notifications, next_id, users, state, data, events, last,
                   turn>>

NextCodec ==
    \/ \E a \in ActionTexts, m \in VariableMaps : Codec_encode(a, m)
    \/ Codec_message
    \/ Codec_decode
    \/ \E u \in UserIds : Codec_get_notification(u)

SpecCodec == Init /\ [][NextCodec]_vars

\* ======================================================================
\* Two users, each going once through the full dialogue
\* ======================================================================
\* Both users have sent /start, the store holds no notification, and each
\* user is at the first step of: add trigger, query text, min price
\* trigger, price text, toggle only-hot, delete.
InitDialogues ==
    /\ integration \in {"legacy", "aiogram"}
    /\ notifications = <<>>
    /\ next_id = 1
    /\ users = [u \in UserIds |-> {"p"}]
    /\ events = 0
    /\ state = [u \in UserIds |-> Idle]
    /\ user_data = [u \in UserIds |-> {}]
    /\ data = [u \in UserIds |-> {}]
    /\ resolves = <<>>
    /\ last = NoHandler
    /\ codec = NoToken
    /\ turn = [u \in UserIds |-> 0]

DialogueQuery(u) == IF u = 1 THEN "tv" ELSE "ps"
DialoguePrice == <<"1", "2", ",", "5", "0">>
DialogueDone == 6
\* The callback ids on the keyboards shown to user u: the user's own
\* notifications.
OwnIds(u) == {ToString(i) : i \in {j \in DOMAIN notifications : notifications[j].user_id = u}}

Dialogue_add(u) ==
    /\ turn[u] = 0
    /\ Methods_add_notification_trigger(u) \/ Handlers_add_notification(u)

Dialogue_query(u) ==
    /\ turn[u] = 1
    /\ \/ Methods_add_notification(u, DialogueQuery(u), "")
       \/ Handlers_process_add_notification(u, DialogueQuery(u))

Dialogue_edit(u) ==
    /\ turn[u] = 2
    /\ \E cb \in OwnIds(u) :
          Methods_update_min_price_trigger(u, cb) \/ Handlers_edit_min_price(u, cb)

Dialogue_price(u) ==
    /\ turn[u] = 3
    /\ \/ Methods_update_min_price(u, DialoguePrice)
       \/ Handlers_process_edit_min_price(u, DialoguePrice)

Dialogue_toggle(u) ==
    /\ turn[u] = 4
    /\ \E cb \in OwnIds(u) :
          Methods_toggle_only_hot(u, cb) \/ Handlers_toggle_only_hot(u, cb)

Dialogue_delete(u) ==
    /\ turn[u] = 5
    /\ \E cb \in OwnIds(u) :
          Methods_delete_notification(u, cb) \/ Handlers_delete_notification(u, cb)

NextDialogues ==
    \/ \E u \in UserIds : Dialogue_add(u)
    \/ \E u \in UserIds : Dialogue_query(u)
    \/ \E u \in UserIds : Dialogue_edit(u)
    \/ \E u \in UserIds : Dialogue_price(u)
    \/ \E u \in UserIds : Dialogue_toggle(u)
    \/ \E u \in UserIds : Dialogue_delete(u)

SpecDialogues == InitDialogues /\ [][NextDialogues]_vars

\* ======================================================================
\* Properties
\* ======================================================================
\* The notification id the session of user u refers to (0 for none).
Pinned(u) ==
    IF integration = "legacy" THEN PinnedLegacy(user_data[u]) ELSE PinnedAiogram(data[u])

Resolved == {resolves[i] : i \in DOMAIN resolves}
ByExplicitId(o) == o.explicit # "" /\ int(o.explicit) \in DOMAIN o.store

\* C1: a resolver call whose event carries a non-empty notification id N
\* that is in the store returns the store's record N, whatever the session
\* refers to (nothing, N, or another notification).
C1_ExplicitIdWins ==
    \A o \in Resolved :
        ByExplicitId(o) => o.notification = {o.store[int(o.explicit)]}

\* A call with an explicit id in the store while the session refers to a
\* different notification.
C1_Witness ==
    \E o \in Resolved :
        /\ ByExplicitId(o)
        /\ o.pinned \notin {0, int(o.explicit)}
        /\ o.notification # {}

\* C2: a resolver call whose event carries no notification id, made while
\* the session refers to a notification M that is in the store, returns a
\* notification and its id is M.
C2_SessionFallback ==
    \A o \in Resolved :
        (o.explicit = "" /\ o.pinned \in DOMAIN o.store)
            => (o.notification # {} /\ \A n \in o.notification : n.id = o.pinned)

\* A call without an id that found the notification of the session.
C2_Witness ==
    \E o \in Resolved :
        o.explicit = "" /\ o.pinned \in DOMAIN o.store /\ o.notification # {}

\* C3: every notification a resolver call returns is in the store at the
\* moment of the call; without a usable id and without a session reference
\* that is still in the store the call signals NotFound.
C3_ResolvedIsInStore ==
    \A o \in Resolved :
        /\ \A n \in o.notification : n.id \in DOMAIN o.store
        /\ (~ByExplicitId(o) /\ o.pinned \notin DOMAIN o.store) => o.notification = {}

\* Handlers that start an edit dialogue, and the state each one names.
EditTriggers ==
    {"update_query_trigger", "update_min_price_trigger", "update_max_price_trigger",
     "edit_query", "edit_min_price", "edit_max_price"}
TriggerState(h) ==
    CASE h \in {"update_query_trigger", "edit_query"} -> EDIT_QUERY
      [] h \in {"update_min_price_trigger", "edit_min_price"} -> EDIT_MIN_PRICE
      [] h \in {"update_max_price_trigger", "edit_max_price"} -> EDIT_MAX_PRICE

\* The last event was a valid reply handled in an awaiting state.
ValidInput ==
    \/ /\ integration = "legacy"
       /\ last.handler \in {"add_notification", "update_query", "update_min_price",
                            "update_max_price"}
       /\ last.from \in AwaitingStates
    \/ /\ integration = "aiogram"
       /\ last.handler \in {"process_add_notification", "process_edit_query",
                            "process_edit_min_price", "process_edit_max_price"}

MinPriceHandlers == {"update_min_price", "process_edit_min_price"}
MaxPriceHandlers == {"update_max_price", "process_edit_max_price"}
InvalidInputHandlers ==
    {"add_notification_failed", "update_query_failed", "update_min_price_failed",
     "update_max_price_failed", "invalid_query", "invalid_price"}
HomeHandlers == {"start", "home", "start_over"}

\* C4: a successful resolve by explicit id N leaves N as the notification
\* the user's session refers to (as long as N is still in the store), so
\* that the user's next event without an id resolves to N.
C4_ExplicitResolvePins ==
    \A o \in Resolved :
        (ByExplicitId(o) /\ int(o.explicit) \in DOMAIN notifications)
            => Pinned(o.user) = int(o.explicit)

\* C5: an edit trigger handled in Idle whose callback names notification M
\* (a notification in the store) leaves the user in the matching awaiting
\* state with the session referring to M.
C5_TriggerPinsTarget ==
    (/\ last.handler \in EditTriggers
     /\ last.from = Idle
     /\ int(last.cb) \in DOMAIN notifications)
        => /\ state[last.user] = TriggerState(last.handler)
           /\ Pinned(last.user) = int(last.cb)

\* C6: after a valid reply was handled in an awaiting state the user is in
\* Idle and the session is empty.
C6_ValidInputEndsDialogue ==
    (ValidInput /\ last.error = "none")
        => /\ state[last.user] = Idle
           /\ user_data[last.user] = {}
           /\ data[last.user] = {}

\* C7: handling an invalid reply in an awaiting state changes neither the
\* conversation states, nor the sessions, nor the store; it only answers
\* with a validation error.
C7_InvalidInputChangesNothing ==
    [][(events' # events /\ last'.handler \in InvalidInputHandlers)
        => /\ last'.from \in AwaitingStates
           /\ state' = state
           /\ user_data' = user_data
           /\ data' = data
           /\ notifications' = notifications
           /\ next_id' = next_id
           /\ users' = users
           /\ last'.reply \in {"invalid_query", "invalid_price"}
           /\ last'.error = "none"]_vars

\* The text "abc" was sent as a price.
C7_Witness ==
    /\ last.handler \in {"update_min_price_failed", "update_max_price_failed", "invalid_price"}
    /\ last.price = <<"a", "b", "c">>
    /\ \E i \in DOMAIN notifications : TRUE

\* C8: cancel handled in an awaiting state ends in Idle with the session
\* empty and without an error; the reply is the overview of the pinned
\* notification when it is in the store and the start reply otherwise.
C8_CancelEndsDialogue ==
    (integration = "aiogram" /\ last.handler = "cancel" /\ last.from \in AwaitingStates)
        => /\ state[last.user] = Idle
           /\ data[last.user] = {}
           /\ last.error = "none"
           /\ Len(resolves) = 1
           /\ last.reply = IF resolves[1].pinned \in DOMAIN resolves[1].store
                            THEN "notification_overview" ELSE "start"

\* Cancel while the pinned notification is no longer in the store.
C8_Witness ==
    /\ integration = "aiogram" /\ last.handler = "cancel" /\ last.from \in AwaitingStates
    /\ Len(resolves) = 1
    /\ resolves[1].pinned # 0
    /\ resolves[1].pinned \notin DOMAIN resolves[1].store

C10_TwelveFiftyStoresThirteen ==
    (/\ last.handler \in MinPriceHandlers \cup MaxPriceHandlers
     /\ last.price = <<"1", "2", ",", "5", "0">>
     /\ last.error = "none")
        => /\ state[last.user] = Idle
           /\ \A o \in Resolved : \A n \in o.notification :
                 n.id \in DOMAIN notifications
                    => IF last.handler \in MinPriceHandlers
                       THEN notifications[n.id].min_price = 13
                       ELSE notifications[n.id].max_price = 13

\* The notification the session referred to when the last handler resolved
\* (0 when it resolved nothing or the session referred to none).
Awaited == IF Len(resolves) = 0 THEN 0 ELSE resolves[1].pinned
PriceField == IF last.handler \in MinPriceHandlers THEN "min_price" ELSE "max_price"

\* C11: the text "/remove" sent in AwaitingMinPrice or AwaitingMaxPrice is
\* taken as a valid price; when the session refers to a notification M of
\* the store, M's min_price (max_price) is 0 afterwards and the user is in
\* Idle.
C11_RemoveStoresZero ==
    (last.price = REMOVE /\ last.from \in {EDIT_MIN_PRICE, EDIT_MAX_PRICE})
        => /\ last.handler \in (IF last.from = EDIT_MIN_PRICE THEN MinPriceHandlers
                                                              ELSE MaxPriceHandlers)
           /\ Awaited \in DOMAIN notifications
                 => /\ last.error = "none"
                    /\ state[last.user] = Idle
                    /\ notifications[Awaited][PriceField] = 0

\* "/remove" was handled for a notification whose price was 12.
C11_Witness ==
    /\ last.price = REMOVE
    /\ last.handler \in MinPriceHandlers \cup MaxPriceHandlers
    /\ Awaited \in DOMAIN notifications
    /\ \A n \in resolves[1].notification : n[PriceField] = 12
    /\ notifications[Awaited][PriceField] = 0

\* C12: every notification in the store has min_price >= 0 and
\* max_price >= 0; a price text that parses to a negative number is not
\* written.
C12_PricesNonNegative ==
    \A i \in DOMAIN notifications :
        notifications[i].min_price >= 0 /\ notifications[i].max_price >= 0

\* The text "-5" was sent as a price for a notification of the store.
C12_Witness ==
    /\ last.price = <<"-", "5">>
    /\ last.from \in {EDIT_MIN_PRICE, EDIT_MAX_PRICE}
    /\ parse_price(last.price) = 0 - 5
    /\ Pinned(last.user) \in DOMAIN notifications

\* C13: when the toggle only-hot action of notification N (named by the
\* callback, in the store) is handled twice in a row, the second one
\* leaves N's search_only_hot in the store at the value it had before the
\* first one, the first one had inverted it, and each of the two sent one
\* write to the store.
C13_ToggleTwice ==
    [][(/\ events' # events
        /\ last'.handler = "toggle_only_hot" /\ last'.again
        /\ last.error = "none" /\ last'.error = "none"
        /\ ByExplicitId(resolves[1]))
        => LET N == int(last.cb)
               original == resolves[1].store[N].search_only_hot
           IN  /\ notifications[N].search_only_hot = ~original
               /\ notifications'[N].search_only_hot = original
               /\ last.writes = 1
               /\ last'.writes = 1]_vars

\* The second of two toggles of the same notification in a row.
C13_Witness ==
    /\ last.handler = "toggle_only_hot" /\ last.again /\ last.error = "none"
    /\ last.cb # "" /\ int(last.cb) \in DOMAIN notifications
    /\ last.writes = 1

\* C16: when the handler of an event other than cancel ended with NotFound,
\* the reply is the "notification not found" message and the user is in
\* Idle afterwards.
C16_NotFoundEndsInIdle ==
    (last.error = "NotificationNotFoundError" /\ last.handler # "cancel")
        => /\ last.reply = "notification_not_found"
           /\ state[last.user] = Idle

\* C17: when an edit trigger for notification M2 (in the store) is handled
\* while the user is in an awaiting state, the user's next valid reply
\* changes M2's field to the value sent and leaves every other
\* notification as it was.
C17_NewDialogueReplaces ==
    [][(/\ events' # events
        /\ last.handler \in EditTriggers
        /\ last.from \in AwaitingStates
        /\ int(last.cb) \in DOMAIN notifications
        /\ last'.user = last.user
        /\ last'.handler \in {"update_query", "update_min_price", "update_max_price",
                              "process_edit_query", "process_edit_min_price",
                              "process_edit_max_price"})
        => LET M2 == int(last.cb)
               column == CASE state[last.user] = EDIT_QUERY -> "query"
                           [] state[last.user] = EDIT_MIN_PRICE -> "min_price"
                           [] state[last.user] = EDIT_MAX_PRICE -> "max_price"
               value == IF column = "query" THEN last'.query ELSE parse_price(last'.price)
           IN  /\ last'.error = "none"
               /\ notifications' = [notifications EXCEPT ![M2][column] = value]]_vars

\* The last handler cleared the session of its user: clear_user_data in
\* start, home and delete_notification, __finish_state in start_over and
\* cancel.
Cleared ==
    \/ /\ integration = "legacy"
       /\ \/ last.handler \in {"start", "home"}
          \/ last.handler = "delete_notification" /\ last.error = "none"
    \/ /\ integration = "aiogram"
       /\ \/ last.handler = "start_over"
          \/ last.handler = "cancel" /\ last.from \in AwaitingStates
SessionKeys == {NOTIFICATION, NOTIFICATION_ID}

\* C20: a handler that clears the session of its user leaves no key in it
\* (get of any key is absent), also when the session was empty before,
\* raises no error and leaves the session of every other user as it was.
C20_ClearLeavesNothing ==
    [][(events' # events /\ Cleared')
        => LET u == last'.user
           IN  /\ \A k \in SessionKeys :
                     /\ get_user_data(user_data'[u], k) = {}
                     /\ dict_get(data'[u], k) = {}
               /\ last'.error = "none"
               /\ \A v \in UserIds \ {u} :
                     /\ user_data'[v] = user_data[v]
                     /\ data'[v] = data[v]
                     /\ state'[v] = state[v]]_vars

\* A session cleared twice in a row while the other user's session holds
\* something.
C20_Witness ==
    /\ Cleared /\ last.again
    /\ user_data[last.user] = {} /\ data[last.user] = {}
    /\ \E v \in UserIds \ {last.user} : user_data[v] # {} \/ data[v] # {}

\* The callback event under study has been read.
Decoded == codec.pc \in {"decoded", "resolved"} /\ codec.update.callback_query

\* C18: for a token encoded from an action and a variable map without
\* delimiter characters, the action read from the token is that action and
\* the value read for each variable of the map is its value in the map.
C18_CodecRoundTrip ==
    (Decoded /\ TokenSafe(codec.action, codec.variables))
        => /\ codec.decoded.action = codec.action
           /\ \A n \in DOMAIN codec.variables :
                 codec.decoded.variables[n] = codec.variables[n]

\* A token with three variables, one name the tail of another, was read.
C18_Witness ==
    /\ Decoded /\ TokenSafe(codec.action, codec.variables)
    /\ DOMAIN codec.variables = VariableNames
    /\ \A n \in VariableNames : codec.variables[n] # <<>>

\* C19: the value read for a variable is the empty text when the event has
\* no callback data and when its token holds no delimiter-prefixed instance
\* of the variable, as it is for a variable encoded with the empty value;
\* with the empty text as notification id the resolver returns the
\* notification the session refers to, or signals NotFound when it refers
\* to none.
C19_AbsentVariableIsEmpty ==
    codec.pc \in {"decoded", "resolved"}
        => /\ \A n \in VariableNames :
                 (\/ ~codec.update.callback_query
                  \/ find(codec.update.data, VARIABLE_PATTERN(n, <<>>), 0) = -1
                  \/ (/\ TokenSafe(codec.action, codec.variables)
                      /\ n \in DOMAIN codec.variables
                      /\ codec.variables[n] = <<>>))
                    => codec.decoded.variables[n] = <<>>
           /\ (codec.pc = "resolved" /\ codec.decoded.variables[VarNotificationId] = <<>>)
                 => /\ resolves[1].explicit = ""
                    /\ \A x \in resolves[1].notification : x.id = resolves[1].pinned
                    /\ resolves[1].pinned # 0 => resolves[1].notification # {}

\* A token of another action, without the notification id, was read and
\* the resolver returned the notification of the session.
C19_Witness ==
    /\ codec.pc = "resolved" /\ codec.update.callback_query
    /\ DOMAIN codec.variables = {VarD}
    /\ codec.decoded.variables[VarNotificationId] = <<>>
    /\ resolves[1].pinned # 0 /\ resolves[1].notification # {}

\* What the store holds for user u, the ids left out.
OwnView(u) ==
    {[notifications[i] EXCEPT !.id = 0] :
        i \in {j \in DOMAIN notifications : notifications[j].user_id = u}}

\* What the store holds for user u after the first k steps of the dialogue
\* when no other user is active.
SequentialView(u, k) ==
    LET added == [NotificationModel EXCEPT !.user_id = u, !.query = DialogueQuery(u)]
        priced == [added EXCEPT !.min_price = parse_price(DialoguePrice)]
        toggled == [priced EXCEPT !.search_only_hot = TRUE]
    IN  CASE k \in {0, 1, DialogueDone} -> {}
          [] k \in {2, 3} -> {added}
          [] k = 4 -> {priced}
          [] k = 5 -> {toggled}

\* C14: in every interleaving of the two users' dialogues the store holds
\* for each user, at each step, what it holds at that step when the
\* dialogues run one after the other (the ids apart, which follow the
\* order of arrival), no step fails, and when both dialogues are done the
\* store is the same in every order: no notification and the two user
\* records.
C14_InterleavingIsSequential ==
    /\ \A u \in UserIds : OwnView(u) = SequentialView(u, turn[u])
    /\ last.error = "none"
    /\ (\A u \in UserIds : turn[u] = DialogueDone)
          => /\ DOMAIN notifications = {}
             /\ next_id = Cardinality(UserIds) + 1
             /\ users = [u \in UserIds |-> {"p"}]

\* Both users are in the middle of their dialogues, user 2's notification
\* was stored before user 1's, and user 1 has just sent the price.
C14_Witness ==
    /\ turn[1] = 4 /\ turn[2] \in 2..5
    /\ last.user = 1
    /\ notifications[2].user_id = 1 /\ notifications[1].user_id = 2

\* ======================================================================
\* C21: whenever the start action is handled for a user with a profile,
\* the store afterwards holds that user's record with exactly this profile
\* (created when absent, upserted when the stored profile differs).
\* ======================================================================
StartWith(u, profile) == Methods_start(u, profile) \/ Handlers_start(u, profile)
C21_StartStoresProfile ==
    [][\A u \in UserIds : \A profile \in Profiles :
          StartWith(u, profile) => users'[u] = {profile}]_vars

\* ======================================================================
\* C22: every notification in the store has a non-empty query, whichever
\* of the add dialogue, the add callback of the ambiguous-query flow and
\* the edit-query dialogue saved it.
\* ======================================================================
C22_QueryNonEmpty ==
    \A i \in DOMAIN notifications : notifications[i].query # ""

\* ======================================================================
\* C23: an edit dialogue (query, min price, max price) or an only-hot
\* toggle on notification M changes only the one corresponding field of M
\* in the store: the store holds the same ids afterwards, M's id, user_id
\* and other fields and every other notification are as before; after an
\* edit dialogue the field holds the value that was sent, after a toggle
\* by explicit id the inverted flag.
\* ======================================================================
QueryHandlers == {"update_query", "process_edit_query"}
FieldHandlers ==
    QueryHandlers \cup MinPriceHandlers \cup MaxPriceHandlers \cup {"toggle_only_hot"}
FieldOf(h) ==
    CASE h \in QueryHandlers -> "query"
      [] h \in MinPriceHandlers -> "min_price"
      [] h \in MaxPriceHandlers -> "max_price"
      [] h = "toggle_only_hot" -> "search_only_hot"
\* The id of the notification the first resolver call of a handler returned.
Target(rs) ==
    IF Len(rs) = 0 \/ rs[1].notification = {} THEN 0
    ELSE (CHOOSE n \in rs[1].notification : TRUE).id
C23_EditChangesOneField ==
    [][(/\ events' # events
        /\ last'.handler \in FieldHandlers
        /\ last'.error = "none")
        => LET M == Target(resolves')
               field == FieldOf(last'.handler)
           IN  /\ M # 0
               /\ DOMAIN notifications' = DOMAIN notifications
               /\ \A i \in DOMAIN notifications : \A f \in DOMAIN NotificationModel :
                     (i # M \/ f # field) => notifications'[i][f] = notifications[i][f]
               /\ M \in DOMAIN notifications
                     => CASE field = "query" -> notifications'[M].query = last'.query
                          [] field \in {"min_price", "max_price"} ->
                                notifications'[M][field] = parse_price(last'.price)
                          [] field = "search_only_hot" ->
                                ByExplicitId(resolves'[1])
                                   => notifications'[M].search_only_hot
                                         = ~notifications[M].search_only_hot]_vars

\* The min price of a notification was set to another value than its max
\* price, which is as it was persisted.
C23_Witness ==
    /\ last.handler \in MinPriceHandlers /\ last.error = "none"
    /\ Target(resolves) \in DOMAIN notifications
    /\ notifications[Target(resolves)].min_price = parse_price(last.price)
    /\ notifications[Target(resolves)].max_price # parse_price(last.price)
    /\ notifications[Target(resolves)].max_price = PersistedPrice(Target(resolves))
    /\ \E i \in DOMAIN notifications : i # Target(resolves)

\* ======================================================================
\* C24: completing the add-notification dialogue with the text q creates
\* exactly one new notification: its id is assigned by the store (not 0,
\* not the id of a notification held before), user_id is the acting user,
\* query is q, both prices are 0, search_only_hot is false, the three
\* source flags are true; every notification held before is unchanged.
\* ======================================================================
AddCompleted(l) ==
    /\ l.from = ADD_NOTIFICATION
    /\ \/ integration = "legacy" /\ l.handler = "add_notification"
       \/ integration = "aiogram" /\ l.handler = "process_add_notification"
C24_AddCreatesOne ==
    [][(events' # events /\ AddCompleted(last'))
        => \E id \in DOMAIN notifications' \ DOMAIN notifications :
              /\ id # 0
              /\ DOMAIN notifications' = DOMAIN notifications \cup {id}
              /\ notifications'[id] =
                    [id |-> id, user_id |-> last'.user, query |-> last'.query,
                     min_price |-> 0, max_price |-> 0, search_only_hot |-> FALSE,
                     search_mydealz |-> TRUE, search_mindstar |-> TRUE,
                     search_preisjaeger |-> TRUE]
              /\ last'.query \in QueryTexts
              /\ \A i \in DOMAIN notifications : notifications'[i] = notifications[i]]_vars

\* The add dialogue was completed while the store held another
\* notification.
C24_Witness ==
    /\ AddCompleted(last) /\ last.error = "none"
    /\ \E id, other \in DOMAIN notifications :
          /\ id # other
          /\ notifications[id].query = last.query
          /\ notifications[id].user_id = last.user
          /\ id = next_id - 1

\* ======================================================================
\* C25: in the legacy integration a resolver call that falls back to the
\* record cached in the session returns what a lookup of that id in the
\* store returns at that moment: the same id and the same field values.
\* ======================================================================
FromCache(o) == ~ByExplicitId(o) /\ o.notification # {}
C25_CacheAgreesWithStore ==
    integration = "legacy"
        => \A o \in Resolved :
              FromCache(o) => \A n \in o.notification : o.notification = get_by_id(o.store, n.id)

\* ======================================================================
\* C26: a resolver call whose event carries a non-empty notification id N
\* that is not in the store returns no notification (NotFound), whatever
\* the session refers to; the handler ends with the NotFound error and the
\* store is as it was when the resolver was called.
\* ======================================================================
ExplicitMissing(o) == o.explicit # "" /\ int(o.explicit) \notin DOMAIN o.store
C26_MissingIdIsNotFound ==
    \A o \in Resolved :
        ExplicitMissing(o)
            => /\ o.notification = {}
               /\ last.error = "NotificationNotFoundError"
               /\ notifications = o.store

\* ======================================================================
\* C27: an event sent by user A leaves every notification whose user_id is
\* another user in the store and unchanged, whatever notification id the
\* event's callback carries.
\* ======================================================================
C27_OwnNotificationsOnly ==
    [][events' # events
        => \A i \in DOMAIN notifications :
              notifications[i].user_id # last'.user
                 => i \in DOMAIN notifications' /\ notifications'[i] = notifications[i]]_vars

====
